---- MODULE Spec2Model ----
(***************************************************************************)
(* Model of the legacy project importer, src/src/import/ImportAUP.cpp:     *)
(* AUPImportFileHandle::Import drives a tokenizer that calls HandleXMLTag  *)
(* and HandleXMLEndTag, then walks the queued block-file descriptors       *)
(* (mFiles) through AddSilence / AddSamples and finally hands the tracks   *)
(* it built to the host project.                                           *)
(*                                                                         *)
(* Attribute values are strings, as in the source; numeric conversions are *)
(* a table (NumText) from the text of a value to the number it parses to.  *)
(* Pointers are records [k, id]: k names what is pointed to, id its index. *)
(***************************************************************************)
EXTENDS Integers, Sequences, FiniteSets, TLC

\* Bounds of the model.
MaxTags == 2          \* tag-open events the importer handles for one document
MaxAfterFail == 1     \* events enumerated after a fatal error (all are no-ops)
MaxWaveTags == 3      \* the same as MaxTags, for documents of wave tags only
MaxNestTags == 4      \* the same as MaxTags, for documents of nested tracks and clips
MaxTimeTags == 3      \* the same as MaxTags, for documents of time-track tags only

(***************************************************************************)
(* Pointers.                                                               *)
(***************************************************************************)
Null   == [k |-> "null",   id |-> 0]
Wild   == [k |-> "wild",   id |-> 0]   \* non-null, points to no object
Uninit == [k |-> "uninit", id |-> 0]   \* member never assigned since construction
TrackPtr(i) == [k |-> "track", id |-> i]     \* mTracks[i]
ClipPtr(j)  == [k |-> "clip",  id |-> j]     \* clips[j]
TrackEnvPtr(i) == [k |-> "tenv", id |-> i]   \* envelope of mTracks[i]
ClipEnvPtr(j)  == [k |-> "cenv", id |-> j]   \* envelope of clips[j]
PointPtr(p) == [k |-> "point", id |-> p]     \* points[p]

\* The values an indeterminate pointer can have when it is read.
PointerReads(p) == IF p = Uninit THEN {Null, Wild} ELSE {p}

(***************************************************************************)
(* Text of attribute values.                                               *)
(***************************************************************************)
BadString == "<ctl>"          \* a value holding a control character
NumText == [t \in {"-1", "0", "1", "2", "3", "1023", "1024", "67108864",
                   "67108865", "131073", "262145", "262159", "7"} |->
              CASE t = "-1" -> -1 [] t = "0" -> 0 [] t = "1" -> 1 [] t = "2" -> 2
                [] t = "3" -> 3 [] t = "7" -> 7
                [] t = "1023" -> 1023 [] t = "1024" -> 1024
                [] t = "67108864" -> 67108864 [] t = "67108865" -> 67108865
                [] t = "131073" -> 131073 [] t = "262145" -> 262145
                [] t = "262159" -> 262159]
RealText == [t \in {"-1", "0", "1", "2", "44100"} |->
              CASE t = "-1" -> -1 [] t = "0" -> 0 [] t = "1" -> 1 [] t = "2" -> 2
                [] t = "44100" -> 44100]

IsGoodString(v) == v # BadString
IsGoodInt(v) == v \in DOMAIN NumText
IsGoodInt64(v) == v \in DOMAIN NumText
ToLong(v) == NumText[v]
ToLongLong(v) == NumText[v]
CompatibleToDouble(v) == v \in DOMAIN RealText
ToDouble(v) == RealText[v]
\* sampleFormat: int16Sample = 0x00020001, int24Sample = 0x00040001,
\* floatSample = 0x0004000F
SampleFormatOf(n) == CASE n = 131073 -> "int16Sample"
                       [] n = 262145 -> "int24Sample"
                       [] n = 262159 -> "floatSample"
                       [] OTHER -> "invalid"
IsValidSampleFormat(n) == SampleFormatOf(n) # "invalid"
SampleFormats == {"int16Sample", "int24Sample", "floatSample"}
MakeUpper(s) == CASE s = "title" -> "TITLE" [] s = "artist" -> "ARTIST" [] OTHER -> s

(***************************************************************************)
(* The file system the importer sees: the directories beside the document  *)
(* and the files of the data directory.                                    *)
(***************************************************************************)
AltName == "doc-data"                       \* mProjDir.GetName() + "-data"
ExistingDirs == {<<"proj_data">>, <<"doc-data">>}
DirExists(dirs) == dirs \in ExistingDirs
DataFiles == {"b1.au", "b2.au"}             \* wxDir::GetAllFiles of the data dir
FullPath(dirs, name) == [dirs |-> dirs, name |-> name]
NoPath == [dirs |-> <<>>, name |-> ""]      \* the empty FilePath

VARIABLES
    pc,             \* where Import stands
    result,         \* what Import returned ("none" until it returns)
    docStack,       \* tokenizer: names of the elements opened and not yet closed
    budget,         \* tokenizer: tag-open events still to come
    rootSeen,       \* tokenizer: the document element has been opened
    quiet,          \* tokenizer: events delivered after a fatal error
    mHandlers, mParentTag, mCurrentTag,
    mTracks,        \* the importer's own track list
    clips,          \* every WaveClip created (top-level clips and cut lines)
    points,         \* every envelope control point created
    mFiles, mTotalSamples, mFormat, mWaveTrack, mClip,
    mUpdateResult, mErrorMsg,
    mProjectAttrs, mProjDir, mFileMap,
    tags,           \* the metadata map mTags points to
    tracks,         \* the host project's track list
    isDirty,        \* Import's local, read at commit time
    view,           \* the host's view state
    processed, next,  \* the driver loop: samples done, index of the next descriptor
    reports,        \* message boxes shown to the user, in order
    ownerCalls,     \* tag and end-tag notifications sent to owners, in order
    setterLog,      \* host setters invoked when the project attributes are applied
    resolveLog,     \* the descriptors resolved, in order, with what each added
    last,           \* the most recent resolution in full
    updates,        \* the answers of the progress checks, in order
    rejected,       \* a tag outside the vocabulary or outside its context was seen
    built,          \* the track tags for which a track was constructed, in order
    tracks0, tags0, view0   \* the host's state when Import began

impVars == <<mHandlers, mParentTag, mCurrentTag, mTracks, clips, points, mFiles,
             mTotalSamples, mFormat, mWaveTrack, mClip, mUpdateResult, mErrorMsg,
             mProjectAttrs, mProjDir, mFileMap, tags, reports, ownerCalls>>
tokVars == <<docStack, budget, rootSeen, quiet>>
hostVars == <<tracks, view, setterLog>>
loopVars == <<processed, next, resolveLog, last, updates>>
ghostVars == <<tracks0, tags0, view0>>
histVars == <<rejected, built>>
vars == <<pc, result, tokVars, impVars, hostVars, isDirty, loopVars, histVars, ghostVars>>


(***************************************************************************)
(* The importer's members as one record, so that the handlers compose the  *)
(* way the code calls them.  crashed records a dereference of a null or    *)
(* wild pointer (the import does not continue after it).                   *)
(***************************************************************************)
Cur == [mHandlers |-> mHandlers, mParentTag |-> mParentTag, mCurrentTag |-> mCurrentTag,
        mTracks |-> mTracks, clips |-> clips, points |-> points, mFiles |-> mFiles,
        mTotalSamples |-> mTotalSamples, mFormat |-> mFormat,
        mWaveTrack |-> mWaveTrack, mClip |-> mClip,
        mUpdateResult |-> mUpdateResult, mErrorMsg |-> mErrorMsg,
        mProjectAttrs |-> mProjectAttrs, mProjDir |-> mProjDir, mFileMap |-> mFileMap,
        tags |-> tags, reports |-> reports, ownerCalls |-> ownerCalls, crashed |-> FALSE]

Install(m) ==
    /\ mHandlers' = m.mHandlers /\ mParentTag' = m.mParentTag
    /\ mCurrentTag' = m.mCurrentTag /\ mTracks' = m.mTracks /\ clips' = m.clips
    /\ points' = m.points /\ mFiles' = m.mFiles /\ mTotalSamples' = m.mTotalSamples
    /\ mFormat' = m.mFormat /\ mWaveTrack' = m.mWaveTrack /\ mClip' = m.mClip
    /\ mUpdateResult' = m.mUpdateResult /\ mErrorMsg' = m.mErrorMsg
    /\ mProjectAttrs' = m.mProjectAttrs /\ mProjDir' = m.mProjDir
    /\ mFileMap' = m.mFileMap /\ tags' = m.tags /\ reports' = m.reports
    /\ ownerCalls' = m.ownerCalls

Crash(m) == [m EXCEPT !.crashed = TRUE]

\* What a tag rule hands back: the members, the handler it set, its return value.
R(m, handler, success) == [m |-> m, handler |-> handler, success |-> success]

SetError(m, msg) ==
    [m EXCEPT !.mErrorMsg = IF @ = "" THEN msg ELSE @,
              !.mUpdateResult = "Failed"]

\* Fault injection: a warning that also sets the outcome, as SetError does.
SetWarningFatal(m, msg) == SetError(m, msg)

SetWarning(m, msg) ==
    [m EXCEPT !.mErrorMsg = IF @ = "" THEN msg ELSE @]

AudacityMessageBox(m, msg) == [m EXCEPT !.reports = Append(@, msg)]

(***************************************************************************)
(* HandleProject                                                           *)
(***************************************************************************)
Unset == "<uninit>"      \* a have-flag and value never written
Garbage == "<garbage>"   \* the value read from a field never written
\* Fault injection: the zoom applied before everything else.
AttrFieldsZoomFirst ==
    <<"zoom", "rate", "snapto", "selectionformat", "audiotimeformat", "frequencyformat",
      "bandwidthformat", "vpos", "h", "sel0", "sel1">>

AttrFields == <<"rate", "snapto", "selectionformat", "audiotimeformat",
                "frequencyformat", "bandwidthformat", "vpos", "h", "zoom",
                "sel0", "sel1">>
FieldSet == {AttrFields[i] : i \in 1..Len(AttrFields)}

set(m, f, v) == [m EXCEPT !.mProjectAttrs[f] = v]

\* The projname branch: locate the data directory and index its files.
ProjName(m, value) ==
    LET first == IF value # "" THEN <<value>> ELSE <<>>
        name1 == IF value # "" /\ DirExists(first) THEN value ELSE ""
        dirs == IF name1 = "" THEN Append(first, AltName) ELSE first
        name2 == IF name1 = "" THEN (IF DirExists(dirs) THEN AltName ELSE "")
                 ELSE name1
    IN  IF name2 = ""
        THEN [m |-> AudacityMessageBox([m EXCEPT !.mProjDir = dirs],
                                       "Couldn't find the project data folder"),
              found |-> FALSE]
        ELSE [m |-> [m EXCEPT !.mProjDir = dirs,
                              !.mFileMap = [n \in (DOMAIN @) \cup DataFiles |->
                                  IF n \in DataFiles THEN FullPath(dirs, n) ELSE @[n]]],
              found |-> TRUE]

RECURSIVE ProjectLoop(_, _, _)
ProjectLoop(m, attrs, requiredTags) ==
    IF attrs = <<>>
    THEN IF requiredTags < 3 THEN R(m, Null, FALSE) ELSE R(m, Null, TRUE)
    ELSE
    LET attr == attrs[1][1]
        value == attrs[1][2]
        rest == Tail(attrs)
        BadReal == ~CompatibleToDouble(value) \/ ToDouble(value) < 0
    IN  IF ~IsGoodString(value)
        THEN R(SetError(m, "Invalid project attribute."), Null, FALSE)
        ELSE CASE attr = "vpos" ->
                    IF ~IsGoodInt(value) \/ ToLong(value) < 0
                    THEN R(SetError(m, "Invalid project 'vpos' attribute."), Null, FALSE)
                    ELSE ProjectLoop(set(m, "vpos", value), rest, requiredTags)
               [] attr \in {"h", "zoom", "sel0", "sel1"} ->
                    IF BadReal
                    THEN R(SetError(m, "Invalid project view attribute."), Null, FALSE)
                    ELSE ProjectLoop(set(m, attr, value), rest, requiredTags)
               [] attr \in {"version", "audacityversion"} ->
                    ProjectLoop(m, rest, requiredTags + 1)
               [] attr = "projname" ->
                    LET p == ProjName(m, value)
                    IN  IF p.found THEN ProjectLoop(p.m, rest, requiredTags + 1)
                        ELSE R(p.m, Null, FALSE)
               [] attr = "rate" ->
                    IF BadReal
                    THEN R(SetError(m, "Invalid project 'selLow' attribute."), Null, FALSE)
                    ELSE ProjectLoop(set(m, "rate", value), rest, requiredTags)
               [] attr = "snapto" ->
                    ProjectLoop(set(m, "snapto", IF value = "on" THEN "true" ELSE "false"),
                                rest, requiredTags)
               [] attr \in {"selectionformat", "audiotimeformat", "frequencyformat",
                            "bandwidthformat"} ->
                    ProjectLoop(set(m, attr, value), rest, requiredTags)
               [] OTHER -> ProjectLoop(m, rest, requiredTags)

\* Fault injection: a root rule whose count of required attributes starts at one.
HandleProjectTwoSuffice(m, attrs) == ProjectLoop(m, attrs, 1)

HandleProject(m, attrs) == ProjectLoop(m, attrs, 0)

(***************************************************************************)
(* Entities.  A track is [kind, samples]: samples counts what was added to *)
(* the track itself.  A clip is [track, parent, samples]: parent is the    *)
(* clip a cut line sits in, 0 for a clip of the track.                     *)
(***************************************************************************)
NewTrack(m, kind) ==
    [m EXCEPT !.mTracks = Append(@, [kind |-> kind, samples |-> 0])]

\* WaveTrack::CreateClip
CreateClip(m, t) ==
    [m EXCEPT !.clips = Append(@, [track |-> t, parent |-> 0, samples |-> 0])]

\* WaveClip::HandleXMLChild for a nested waveclip tag: a new cut line of clip c
NewCutLine(m, c) ==
    [m EXCEPT !.clips = Append(@, [track |-> m.clips[c].track, parent |-> c,
                                   samples |-> 0])]

ClipsOf(m, t) == {j \in 1..Len(m.clips) : m.clips[j].track = t /\ m.clips[j].parent = 0}
Rightmost(m, t) == CHOOSE j \in ClipsOf(m, t) : \A i \in ClipsOf(m, t) : i <= j

\* The top frame, as the code copies it.  On an empty stack back() is undefined:
\* ub names what the read did, a fault or a frame of garbage.
EmptyBack(m) == m.mHandlers = <<>>
Back(m) == IF EmptyBack(m) THEN [parent |-> "", tag |-> "", handler |-> Wild]
           ELSE m.mHandlers[Len(m.mHandlers)]

HandleLabelTrack(m) ==
    LET m1 == NewTrack(m, "label") IN R(m1, TrackPtr(Len(m1.mTracks)), TRUE)

USE_MIDI == TRUE
HandleNoteTrack(m) ==
    IF USE_MIDI
    THEN LET m1 == NewTrack(m, "note") IN R(m1, TrackPtr(Len(m1.mTracks)), TRUE)
    ELSE R(AudacityMessageBox(m, "MIDI tracks found, bypassing track."), Null, FALSE)

HostHasTimeTrack == \E i \in 1..Len(tracks) : tracks[i].kind = "time"

HandleTimeTrack(m) ==
    IF HostHasTimeTrack
    THEN R(AudacityMessageBox(m, "bypassing imported time track."), Null, TRUE)
    ELSE LET m1 == NewTrack(m, "time") IN R(m1, TrackPtr(Len(m1.mTracks)), TRUE)

HandleWaveTrack(m) ==
    LET m1 == NewTrack(m, "wave")
        h == TrackPtr(Len(m1.mTracks))
    IN  R([m1 EXCEPT !.mWaveTrack = h, !.mClip = Null], h, TRUE)

\* Tags::SetTag
SetTag(m, n, v) ==
    [m EXCEPT !.tags = [k \in (DOMAIN @) \cup {n} |-> IF k = n THEN v ELSE @[k]]]

RECURSIVE HandleTagsLoop(_, _)
HandleTagsLoop(m, attrs) ==
    IF attrs = <<>> THEN R(m, Null, TRUE)
    ELSE
    LET attr == attrs[1][1]
        value == attrs[1][2]
        rest == Tail(attrs)
    IN  IF value = "" THEN HandleTagsLoop(m, rest)
        ELSE IF ~IsGoodString(attr) \/ ~IsGoodString(value) THEN R(m, Null, FALSE)
        ELSE IF attr = "id3v2" THEN HandleTagsLoop(m, rest)
        ELSE LET n == IF attr = "track" THEN "TRACKNUMBER" ELSE MakeUpper(attr)
             IN  HandleTagsLoop(SetTag(m, n, value), rest)

HandleTags(m, attrs) == HandleTagsLoop(m, attrs)

\* The loop of HandleTag: the name and value it ends with.
RECURSIVE HandleTagLoop(_, _)
HandleTagLoop(nv, attrs) ==
    IF attrs = <<>> THEN nv
    ELSE
    LET attr == attrs[1][1]
        value == attrs[1][2]
    IN  IF attr = "" THEN nv
        ELSE IF ~IsGoodString(attr) \/ ~IsGoodString(value) THEN nv
        ELSE HandleTagLoop(CASE attr = "name" -> [nv EXCEPT !.n = value]
                             [] attr = "value" -> [nv EXCEPT !.v = value]
                             [] OTHER -> nv,
                           Tail(attrs))

HandleTag(m, attrs) ==
    IF m.mParentTag # "tags" THEN R(m, Null, FALSE)
    ELSE LET nv == HandleTagLoop([n |-> "", v |-> ""], attrs)
         IN  IF nv.n = "id3v2" THEN R(m, Null, TRUE)
             ELSE R(SetTag(m, nv.n, nv.v), Null, TRUE)

\* Fault injection: the label rule without its test of the parent tag.
HandleLabelAnywhere(m) == R(m, Back(m).handler, TRUE)

HandleLabel(m) ==
    IF m.mParentTag # "labeltrack" THEN R(m, Null, FALSE)
    ELSE R(m, Back(m).handler, TRUE)

\* ub: what reading back() of an empty stack did, "fault" or "garbage".
HandleWaveClip(m, ub) ==
    IF EmptyBack(m) /\ ub = "fault" THEN R(Crash(m), Null, FALSE)
    ELSE
    LET node == Back(m)
    IN  IF m.mParentTag = "wavetrack"
        THEN IF node.handler.k # "track" THEN R(Crash(m), Null, FALSE)
             ELSE LET m1 == CreateClip(m, node.handler.id)
                      h == ClipPtr(Len(m1.clips))
                  IN  R([m1 EXCEPT !.mClip = h], h, TRUE)
        ELSE IF m.mParentTag = "waveclip"
        THEN IF node.handler.k # "clip" THEN R(Crash(m), Null, FALSE)
             ELSE LET m1 == NewCutLine(m, node.handler.id)
                      h == ClipPtr(Len(m1.clips))
                  IN  R([m1 EXCEPT !.mClip = h], h, TRUE)
        ELSE R([m EXCEPT !.mClip = Null], Null, TRUE)

HandleEnvelope(m, ub) ==
    IF EmptyBack(m) /\ ub = "fault" THEN R(Crash(m), Null, FALSE)
    ELSE
    LET node == Back(m)
    IN  IF m.mParentTag = "timetrack"
        THEN IF node.handler # Null
             THEN IF node.handler.k # "track" THEN R(Crash(m), Null, FALSE)
                  ELSE R(m, TrackEnvPtr(node.handler.id), TRUE)
             ELSE R(m, Null, TRUE)
        ELSE IF m.mParentTag = "wavetrack"
        THEN IF m.mWaveTrack.k # "track" THEN R(Crash(m), Null, FALSE)
             ELSE LET t == m.mWaveTrack.id
                      m1 == IF ClipsOf(m, t) = {} THEN CreateClip(m, t) ELSE m
                  IN  R(m1, ClipEnvPtr(Rightmost(m1, t)), TRUE)
        ELSE IF m.mParentTag = "waveclip"
        THEN IF node.handler.k # "clip" THEN R(Crash(m), Null, FALSE)
             ELSE R(m, ClipEnvPtr(node.handler.id), TRUE)
        ELSE R(m, Null, TRUE)

\* Fault injection: the controlpoint rule without its test for a null owner.
HandleControlPointUnchecked(m, ub) ==
    IF EmptyBack(m) /\ ub = "fault" THEN R(Crash(m), Null, FALSE)
    ELSE
    LET node == Back(m)
    IN  IF m.mParentTag = "envelope"
        THEN IF node.handler.k \notin {"tenv", "cenv"} THEN R(Crash(m), Null, FALSE)
             ELSE LET m1 == [m EXCEPT !.points = Append(@, node.handler)]
                  IN  R(m1, PointPtr(Len(m1.points)), TRUE)
        ELSE R(m, Null, TRUE)

HandleControlPoint(m, ub) ==
    IF EmptyBack(m) /\ ub = "fault" THEN R(Crash(m), Null, FALSE)
    ELSE
    LET node == Back(m)
    IN  IF m.mParentTag = "envelope" /\ node.handler # Null
        THEN IF node.handler.k \notin {"tenv", "cenv"} THEN R(Crash(m), Null, FALSE)
             ELSE LET m1 == [m EXCEPT !.points = Append(@, node.handler)]
                  IN  R(m1, PointPtr(Len(m1.points)), TRUE)
        ELSE R(m, Null, TRUE)

BadCount(value) == ~IsGoodInt64(value) \/ ToLongLong(value) < 0
BadLen(value) == ~IsGoodInt64(value) \/ ToLongLong(value) <= 0

RECURSIVE SequenceLoop(_, _)
\* Fault injection: the maxsamples test with its lower bound off by one.
SequenceLoopOffByOne(m, attrs) ==
    IF attrs = <<>> THEN R(m, Null, TRUE)
    ELSE
    LET attr == attrs[1][1]
        value == attrs[1][2]
        rest == Tail(attrs)
    IN  CASE attr = "maxsamples" ->
               IF BadCount(value)
               THEN R(SetError(m, "Invalid sequence 'maxsamples' attribute."), Null, FALSE)
               ELSE IF ToLongLong(value) <= 1024 \/ ToLongLong(value) > 64 * 1024 * 1024
               THEN R(SetError(m, "Invalid sequence 'maxsamples' attribute."), Null, FALSE)
               ELSE SequenceLoop(m, rest)
          [] attr = "sampleformat" ->
               IF ~IsGoodInt(value) \/ ToLong(value) < 0 \/ ~IsValidSampleFormat(ToLong(value))
               THEN R(SetError(m, "Invalid sequence 'sampleformat' attribute."), Null, FALSE)
               ELSE SequenceLoop([m EXCEPT !.mFormat = SampleFormatOf(ToLong(value))], rest)
          [] attr = "numsamples" ->
               IF BadCount(value)
               THEN R(SetError(m, "Invalid sequence 'numsamples' attribute."), Null, FALSE)
               ELSE SequenceLoop(m, rest)
          [] OTHER -> SequenceLoop(m, rest)

SequenceLoop(m, attrs) ==
    IF attrs = <<>> THEN R(m, Null, TRUE)
    ELSE
    LET attr == attrs[1][1]
        value == attrs[1][2]
        rest == Tail(attrs)
    IN  CASE attr = "maxsamples" ->
               IF BadCount(value)
               THEN R(SetError(m, "Invalid sequence 'maxsamples' attribute."), Null, FALSE)
               ELSE IF ToLongLong(value) < 1024 \/ ToLongLong(value) > 64 * 1024 * 1024
               THEN R(SetError(m, "Invalid sequence 'maxsamples' attribute."), Null, FALSE)
               ELSE SequenceLoop(m, rest)
          [] attr = "sampleformat" ->
               IF ~IsGoodInt(value) \/ ToLong(value) < 0 \/ ~IsValidSampleFormat(ToLong(value))
               THEN R(SetError(m, "Invalid sequence 'sampleformat' attribute."), Null, FALSE)
               ELSE SequenceLoop([m EXCEPT !.mFormat = SampleFormatOf(ToLong(value))], rest)
          [] attr = "numsamples" ->
               IF BadCount(value)
               THEN R(SetError(m, "Invalid sequence 'numsamples' attribute."), Null, FALSE)
               ELSE SequenceLoop(m, rest)
          [] OTHER -> SequenceLoop(m, rest)

HandleSequence(m, attrs, ub) ==
    IF EmptyBack(m) /\ ub = "fault" THEN R(Crash(m), Null, FALSE)
    ELSE SequenceLoop(m, attrs)

RECURSIVE WaveBlockLoop(_, _)
WaveBlockLoop(m, attrs) ==
    IF attrs = <<>> THEN R(m, Null, TRUE)
    ELSE IF attrs[1][1] = "start" /\ BadCount(attrs[1][2])
    THEN R(SetError(m, "Unable to parse the waveblock 'start' attribute"), Null, FALSE)
    ELSE WaveBlockLoop(m, Tail(attrs))

HandleWaveBlock(m, attrs) == WaveBlockLoop(m, attrs)

\* Fault injection: a descriptor queued without adding its length to the total.
AddFileNoTotal(m, len, filename, origin, channel) ==
    [m EXCEPT !.mFiles = Append(@, [track |-> m.mWaveTrack, clip |-> m.mClip,
                                    path |-> filename, len |-> len,
                                    origin |-> origin, channel |-> channel])]

AddFile(m, len, filename, origin, channel) ==
    [m EXCEPT !.mFiles = Append(@, [track |-> m.mWaveTrack, clip |-> m.mClip,
                                    path |-> filename, len |-> len,
                                    origin |-> origin, channel |-> channel]),
              !.mTotalSamples = @ + len]

\* XMLValueChecker's tests of file names and paths
AliasFiles == {"/abs/x.wav"}
IsGoodFileString(v) == IsGoodString(v) /\ v # "" /\ v \notin {"/abs/x.wav", "/abs/gone.wav"}
IsGoodPathString(v) == IsGoodString(v) /\ v # ""
IsGoodPathName(v) == v \in AliasFiles
IsGoodFileName(v, dirs) == IsGoodFileString(v) /\ DirExists(dirs) /\ v \in DataFiles

\* The loops of the block-file rules carry the locals the attributes set.
RECURSIVE SimpleBlockLoop(_, _, _)
SimpleBlockLoop(m, attrs, loc) ==
    IF attrs = <<>> THEN R(AddFile(m, loc.len, loc.filename, 0, 0), Null, TRUE)
    ELSE
    LET attr == attrs[1][1]
        value == attrs[1][2]
        rest == Tail(attrs)
    IN  CASE attr \in {"filename", "FILENAME"} ->
               IF IsGoodFileString(value)
               THEN IF value \in DOMAIN m.mFileMap
                    THEN SimpleBlockLoop(m, rest, [loc EXCEPT !.filename = m.mFileMap[value]])
                    ELSE SimpleBlockLoop(SetWarning(m, "Missing project file"), rest, loc)
               ELSE SimpleBlockLoop(m, rest, loc)
          [] attr = "len" ->
               IF BadLen(value)
               THEN R(SetError(m, "Missing or invalid simpleblockfile 'len' attribute."),
                      Null, FALSE)
               ELSE SimpleBlockLoop(m, rest, [loc EXCEPT !.len = ToLongLong(value)])
          [] OTHER -> SimpleBlockLoop(m, rest, loc)

HandleSimpleBlockFile(m, attrs) ==
    SimpleBlockLoop(m, attrs, [filename |-> NoPath, len |-> 0])

RECURSIVE SilentBlockLoop(_, _, _)
SilentBlockLoop(m, attrs, len) ==
    IF attrs = <<>> THEN R(AddFile(m, len, NoPath, 0, 0), Null, TRUE)
    ELSE IF attrs[1][1] = "len"
    THEN IF BadLen(attrs[1][2])
         THEN R(SetError(m, "Missing or invalid silentblockfile 'len' attribute."),
                Null, FALSE)
         ELSE SilentBlockLoop(m, Tail(attrs), ToLongLong(attrs[1][2]))
    ELSE SilentBlockLoop(m, Tail(attrs), len)

HandleSilentBlockFile(m, attrs) == SilentBlockLoop(m, attrs, 0)

RECURSIVE PCMAliasLoop(_, _, _)
PCMAliasLoop(m, attrs, loc) ==
    IF attrs = <<>>
    THEN R(AddFile(m, loc.len, loc.filename, loc.start, loc.channel), Null, TRUE)
    ELSE
    LET attr == attrs[1][1]
        value == attrs[1][2]
        rest == Tail(attrs)
    IN  CASE attr = "aliasfile" ->
               IF IsGoodPathName(value)
               THEN PCMAliasLoop(m, rest, [loc EXCEPT !.filename = FullPath(<<>>, value)])
               ELSE IF IsGoodFileName(value, m.mProjDir)
               THEN PCMAliasLoop(m, rest,
                                 [loc EXCEPT !.filename = FullPath(m.mProjDir, value)])
               ELSE IF IsGoodPathString(value)
               THEN PCMAliasLoop(SetWarning(m, "Missing alias file"), rest, loc)
               ELSE PCMAliasLoop(m, rest, loc)
          [] attr = "aliasstart" ->
               IF BadCount(value)
               THEN R(SetError(m, "Missing or invalid pcmaliasblockfile 'aliasstart' attribute."),
                      Null, FALSE)
               ELSE PCMAliasLoop(m, rest, [loc EXCEPT !.start = ToLongLong(value)])
          [] attr = "aliaslen" ->
               IF BadLen(value)
               THEN R(SetError(m, "Missing or invalid pcmaliasblockfile 'aliaslen' attribute."),
                      Null, FALSE)
               ELSE PCMAliasLoop(m, rest, [loc EXCEPT !.len = ToLongLong(value)])
          [] attr = "aliaschannel" ->
               IF ~IsGoodInt(value) \/ ToLong(value) < 0
               THEN R(SetError(m, "Missing or invalid pcmaliasblockfile 'aliaslen' attribute."),
                      Null, FALSE)
               ELSE PCMAliasLoop(m, rest, [loc EXCEPT !.channel = ToLong(value)])
          [] OTHER -> PCMAliasLoop(m, rest, loc)

HandlePCMAliasBlockFile(m, attrs) ==
    PCMAliasLoop(m, attrs, [filename |-> NoPath, start |-> 0, len |-> 0, channel |-> 0])

(***************************************************************************)
(* HandleXMLTag and HandleXMLEndTag.  env is what the collaborators answer *)
(* during the call: childOk, the return value of the owner's own           *)
(* HandleXMLTag; ub, what an undefined read of the empty stack did.        *)
(***************************************************************************)
NotRecognized == "Internal error in importer...tag not recognized"

Dispatch(m, tag, attrs, env) ==
    CASE tag \in {"project", "audacityproject"} -> HandleProject(m, attrs)
      [] tag = "labeltrack" -> HandleLabelTrack(m)
      [] tag = "notetrack" -> HandleNoteTrack(m)
      [] tag = "timetrack" -> HandleTimeTrack(m)
      [] tag = "wavetrack" -> HandleWaveTrack(m)
      [] tag = "tags" -> HandleTags(m, attrs)
      [] tag = "tag" -> HandleTag(m, attrs)
      [] tag = "label" -> HandleLabel(m)
      [] tag = "waveclip" -> HandleWaveClip(m, env.ub)
      [] tag = "sequence" -> HandleSequence(m, attrs, env.ub)
      [] tag = "waveblock" -> HandleWaveBlock(m, attrs)
      [] tag = "envelope" -> HandleEnvelope(m, env.ub)
      [] tag = "controlpoint" -> HandleControlPoint(m, env.ub)
      [] tag = "simpleblockfile" -> HandleSimpleBlockFile(m, attrs)
      [] tag = "silentblockfile" -> HandleSilentBlockFile(m, attrs)
      [] tag = "pcmaliasblockfile" -> HandlePCMAliasBlockFile(m, attrs)
      [] OTHER -> R(m, Null, FALSE)

\* Fault injection: a tag rule that does not look at the outcome first.
HandleXMLTagUnguarded(m, tag, attrs, env) ==
    LET m1 == [m EXCEPT !.mParentTag = m.mCurrentTag, !.mCurrentTag = tag]
        r == Dispatch(m1, tag, attrs, env)
        asked == r.success /\ r.handler # Null
        m2 == IF asked
              THEN [r.m EXCEPT !.ownerCalls = Append(@, [op |-> "tag", to |-> r.handler])]
              ELSE r.m
    IN  IF r.m.crashed THEN [m |-> r.m, ret |-> FALSE]
        ELSE IF ~r.success \/ (asked /\ ~env.childOk)
        THEN [m |-> SetError(m2, NotRecognized), ret |-> FALSE]
        ELSE [m |-> [m2 EXCEPT !.mHandlers = Append(@, [parent |-> m2.mParentTag,
                                                        tag |-> m2.mCurrentTag,
                                                        handler |-> r.handler])],
              ret |-> TRUE]

HandleXMLTag(m, tag, attrs, env) ==
    IF m.mUpdateResult # "Success" THEN [m |-> m, ret |-> FALSE]
    ELSE
    LET m1 == [m EXCEPT !.mParentTag = m.mCurrentTag, !.mCurrentTag = tag]
        r == Dispatch(m1, tag, attrs, env)
        asked == r.success /\ r.handler # Null
        m2 == IF asked
              THEN [r.m EXCEPT !.ownerCalls = Append(@, [op |-> "tag", to |-> r.handler])]
              ELSE r.m
    IN  IF r.m.crashed THEN [m |-> r.m, ret |-> FALSE]
        ELSE IF ~r.success \/ (asked /\ ~env.childOk)
        THEN [m |-> SetError(m2, NotRecognized), ret |-> FALSE]
        ELSE [m |-> [m2 EXCEPT !.mHandlers = Append(@, [parent |-> m2.mParentTag,
                                                        tag |-> m2.mCurrentTag,
                                                        handler |-> r.handler])],
              ret |-> TRUE]

\* Fault injection: an end-tag rule that pops the frame and leaves the tag names.
HandleXMLEndTagNoRestore(m, tag) ==
    IF m.mUpdateResult # "Success" THEN m
    ELSE IF EmptyBack(m) THEN Crash(m)
    ELSE
    LET node == Back(m)
        notify == [m EXCEPT !.ownerCalls = Append(@, [op |-> "end", to |-> node.handler])]
        m1 == IF tag = "waveclip"
              THEN IF node.handler.k # "clip" THEN Crash([m EXCEPT !.mClip = node.handler])
                   ELSE [notify EXCEPT !.mClip = node.handler]
              ELSE IF node.handler # Null THEN notify ELSE m
    IN  IF m1.crashed THEN m1
        ELSE [m1 EXCEPT !.mHandlers = SubSeq(@, 1, Len(@) - 1)]

HandleXMLEndTag(m, tag) ==
    IF m.mUpdateResult # "Success" THEN m
    ELSE IF EmptyBack(m) THEN Crash(m)
    ELSE
    LET node == Back(m)
        notify == [m EXCEPT !.ownerCalls = Append(@, [op |-> "end", to |-> node.handler])]
        m1 == IF tag = "waveclip"
              THEN IF node.handler.k # "clip" THEN Crash([m EXCEPT !.mClip = node.handler])
                   ELSE [notify EXCEPT !.mClip = node.handler]
              ELSE IF node.handler # Null THEN notify ELSE m
        m2 == [m1 EXCEPT !.mHandlers = SubSeq(@, 1, Len(@) - 1)]
    IN  IF m1.crashed THEN m1
        ELSE IF m2.mHandlers # <<>>
        THEN [m2 EXCEPT !.mParentTag = Back(m2).parent, !.mCurrentTag = Back(m2).tag]
        ELSE m2

(***************************************************************************)
(* The Block Resolver.  The owner of the samples is mClip if set, else     *)
(* mWaveTrack.  Using a wild pointer faults.                               *)
(***************************************************************************)
\* WaveClip::InsertSilence / WaveTrack::InsertSilence, Append and Flush
ClipAdd(m, c, n) == [m EXCEPT !.clips[c].samples = @ + n]
TrackAdd(m, t, n) == [m EXCEPT !.mTracks[t].samples = @ + n]

AddSilence(m, len) ==
    IF m.mClip # Null
    THEN IF m.mClip.k # "clip" \/ m.mWaveTrack.k # "track" THEN Crash(m)
         ELSE ClipAdd(m, m.mClip.id, len)
    ELSE IF m.mWaveTrack # Null
    THEN IF m.mWaveTrack.k # "track" THEN Crash(m)
         ELSE TrackAdd(m, m.mWaveTrack.id, len)
    ELSE m

\* Lines 1533-1545: the decoded buffer goes to the clip or the track.
AppendSamples(m, cnt) ==
    IF m.mClip # Null
    THEN IF m.mClip.k # "clip" THEN Crash(m) ELSE ClipAdd(m, m.mClip.id, cnt)
    ELSE IF m.mWaveTrack # Null
    THEN IF m.mWaveTrack.k # "track" THEN Crash(m)
         ELSE TrackAdd(m, m.mWaveTrack.id, cnt)
    ELSE m

\* Fault injection: a finally block that warns but inserts no silence.
CleanupNoSilence(m, len) == SetWarning(m, "Error while processing file")

\* The finally block of AddSamples when success is false.
Cleanup(m, len) == AddSilence(SetWarning(m, "Error while processing file"), len)

\* The handles of AddSamples: the wxFile f and the SNDFILE pointer sf.
NoHandle == "none"
OpenHandle == "open"
Opens(h) == IF h = OpenHandle THEN 1 ELSE 0

\* Fault injection: a finally block that leaves sf to the caller.
FinallyLeaks(sf) == 0

\* Lines 1412-1415 of the finally block: sf_close if sf is set.
FinallyCloses(sf) == IF sf # NoHandle THEN 1 ELSE 0

\* wxFile::~wxFile closes the file if it is open (sf_open_fd was told not to).
FileDtorCloses(f) == IF f = OpenHandle THEN 1 ELSE 0

\* The read path the format and the file select (lines 1458-1531).
ReadPath(format, io) ==
    IF io.channels = 1 /\ format = "int16Sample" /\ io.isInteger THEN "short"
    ELSE IF io.channels = 1 /\ format = "int24Sample" /\ io.isInteger THEN "int24"
    ELSE IF format = "int16Sample" /\ ~io.moreThan16 THEN "deinterleave"
    ELSE "float"

\* Does the read path compare framesRead with cnt?
ChecksFramesRead(path) == path \in {"int24", "deinterleave", "float"}

\* sf_readf_*: the frames the library delivered of the cnt asked for
FramesRead(io, cnt) == cnt - io.missing

\* io is what the file system and the decode library answer: fileOpens (wxFile::Open),
\* sfOpens (sf_open_fd), seeks (sf_seek), channels, isInteger and moreThan16 (the
\* subtype of the file), missing (the frames a read fell short by).  The result is the members and a note of
\* what was done: data, the frames appended of which only valid were read.
\* f is the wxFile and sf the SNDFILE pointer as they stand when the function is
\* left: the finally block closes sf, then the destructor of f closes the file.
AddSamples(m, len, origin, format, io) ==
    LET f == IF io.fileOpens THEN OpenHandle ELSE NoHandle
        sf == IF io.fileOpens /\ io.sfOpens THEN OpenHandle ELSE NoHandle
        handles == [fOpened |-> Opens(f), fClosed |-> FileDtorCloses(f),
                    sfOpened |-> Opens(sf), sfClosed |-> FinallyCloses(sf)]
        fail(w, why, rp) ==
            [m |-> Cleanup(SetWarning(m, w), len), path |-> rp, failure |-> why,
             warned |-> TRUE, silence |-> len, data |-> 0, valid |-> 0] @@ handles
        cnt == len
        rp == ReadPath(format, io)
        framesRead == FramesRead(io, cnt)
    IN  IF ~io.fileOpens THEN fail("Failed to open file", "open", "none")
        ELSE IF ~io.sfOpens THEN fail("Failed to open file", "open", "none")
        ELSE IF origin > 0 /\ ~io.seeks THEN fail("Failed to seek", "seek", "none")
        ELSE IF ChecksFramesRead(rp) /\ framesRead # cnt
        THEN fail("Unable to read samples", "read", rp)
        ELSE [m |-> AppendSamples(m, cnt), path |-> rp,
              failure |-> IF framesRead # cnt THEN "read" ELSE "none",
              warned |-> FALSE, silence |-> 0, data |-> cnt, valid |-> framesRead]
             @@ handles

Failing == mUpdateResult # "Success"

(***************************************************************************)
(* Inputs: the events the tokenizer can deliver and the answers of the     *)
(* collaborators.                                                          *)
(***************************************************************************)
A(n, v) == <<n, v>>
RootOk == <<A("version", "1"), A("audacityversion", "1"), A("projname", "proj_data"),
            A("zoom", "2"), A("snapto", "on"), A("rate", "44100")>>
RootTwo == <<A("version", "1"), A("projname", "proj_data")>>

AttrsOf(tag) ==
    CASE tag = "project" -> {RootOk, RootTwo}
      [] tag = "audacityproject" -> {RootOk}
      [] tag = "tags" -> {<<A("title", "x")>>}
      [] tag = "tag" -> {<<A("name", "artist"), A("value", "y")>>}
      [] tag = "sequence" -> {<<A("maxsamples", "1024"), A("sampleformat", "131073")>>,
                              <<A("sampleformat", "262159")>>,
                              <<A("maxsamples", "1023")>>}
      [] tag = "waveblock" -> {<<A("start", "0")>>}
      [] tag = "simpleblockfile" -> {<<A("filename", "b1.au"), A("len", "2")>>,
                                     <<A("filename", "zz.au"), A("len", "1")>>,
                                     <<A("filename", "b1.au"), A("len", "0")>>}
      [] tag = "silentblockfile" -> {<<A("len", "1")>>}
      [] tag = "pcmaliasblockfile" ->
             {<<A("aliasfile", "/abs/x.wav"), A("aliasstart", "1"), A("aliaslen", "2"),
                A("aliaschannel", "0")>>}
      [] OTHER -> {<<>>}

Vocabulary == {"project", "audacityproject", "labeltrack", "notetrack", "timetrack",
               "wavetrack", "tags", "tag", "label", "waveclip", "sequence", "waveblock",
               "envelope", "controlpoint", "simpleblockfile", "silentblockfile",
               "pcmaliasblockfile"}
TagNames == Vocabulary \cup {"bogus"}
AfterFailTags == {"wavetrack", "timetrack"}  \* the tags enumerated once the outcome is Failed
\* Narrower vocabularies, for deeper documents.
WaveTags == {"wavetrack", "waveclip", "sequence", "silentblockfile", "pcmaliasblockfile"}
NestTags == {"wavetrack", "waveclip", "silentblockfile"}
TimeTags == {"timetrack", "envelope", "controlpoint", "labeltrack", "silentblockfile"}

\* The tags whose rule can set an owner, which is then asked to handle the tag.
OwnerTags == {"labeltrack", "notetrack", "timetrack", "wavetrack", "label", "waveclip",
              "envelope", "controlpoint"}
\* The tags whose rule reads the top frame before looking at the parent tag.
BackTags == {"waveclip", "envelope", "controlpoint", "sequence"}
TagEnvs(tag) ==
    [childOk : IF tag \in OwnerTags /\ ~Failing THEN BOOLEAN ELSE {TRUE},
     ub : IF tag \in BackTags /\ mHandlers = <<>> /\ ~Failing
          THEN {"fault", "garbage"} ELSE {"garbage"}]

ProgressResults == {"Success", "Cancelled", "Failed", "Stopped"}

\* The answers of the decode service: a file that opens and reads in full, for each
\* kind of file, and every way it can fail.
GoodIO(ch, int, wide) == [fileOpens |-> TRUE, sfOpens |-> TRUE, seeks |-> TRUE,
                          channels |-> ch, isInteger |-> int, moreThan16 |-> wide,
                          missing |-> 0]
FileKinds == {GoodIO(1, TRUE, FALSE), GoodIO(1, TRUE, TRUE), GoodIO(2, TRUE, FALSE),
              GoodIO(2, FALSE, TRUE)}
IOs == FileKinds
       \cup {[io EXCEPT !.missing = 1] : io \in FileKinds}
       \cup {[GoodIO(1, TRUE, FALSE) EXCEPT !.fileOpens = FALSE],
             [GoodIO(1, TRUE, FALSE) EXCEPT !.sfOpens = FALSE],
             [GoodIO(1, TRUE, FALSE) EXCEPT !.seeks = FALSE]}

NoResolution == [file |-> 0, path |-> "none", format |-> "none", failure |-> "none",
                 warned |-> FALSE, silence |-> 0, data |-> 0, valid |-> 0,
                 fOpened |-> 0, fClosed |-> 0, sfOpened |-> 0, sfClosed |-> 0]

TimeTrack0 == [kind |-> "time", samples |-> 0]
HostTrackLists == {<<>>, <<TimeTrack0>>}
View0 == [f \in FieldSet |-> "host"]
Tags0 == [k \in {"TITLE"} |-> "old"]

\* The state after construction, for a document of at most n handled tags and a
\* host project holding one of the track lists hosts.
InitWith(n, hosts) ==
    /\ pc = "ready" /\ result = "none"
    /\ docStack = <<>> /\ budget = n /\ rootSeen = FALSE /\ quiet = 0
    /\ mHandlers = <<>> /\ mParentTag = "" /\ mCurrentTag = ""
    /\ mTracks = <<>> /\ clips = <<>> /\ points = <<>>
    /\ mFiles = <<>> /\ mTotalSamples = 0
    /\ mFormat = "uninit" /\ mWaveTrack = Uninit /\ mClip = Uninit
    /\ mUpdateResult = "uninit" /\ mErrorMsg = ""
    /\ mProjectAttrs = [f \in FieldSet |-> Unset]
    /\ mProjDir = <<>> /\ mFileMap = <<>>
    /\ tags = Tags0 /\ tags0 = Tags0
    /\ tracks \in hosts /\ tracks0 = tracks
    /\ isDirty = FALSE
    /\ view = View0 /\ view0 = View0
    /\ processed = 0 /\ next = 0
    /\ reports = <<>> /\ ownerCalls = <<>> /\ setterLog = <<>>
    /\ resolveLog = <<>> /\ last = NoResolution /\ updates = <<>>
    /\ rejected = FALSE /\ built = <<>>

Init == InitWith(MaxTags, HostTrackLists)

(***************************************************************************)
(* Import, lines 274-288: up to the call of the tokenizer.                 *)
(***************************************************************************)
ImportBegin ==
    /\ pc = "ready"
    /\ \E dirty \in BOOLEAN : isDirty' = (dirty \/ tracks # <<>>)
    /\ mTotalSamples' = 0
    /\ mUpdateResult' = "Success"
    /\ pc' = "parse"
    /\ UNCHANGED <<result, tokVars, mHandlers, mParentTag, mCurrentTag, mTracks, clips,
                   points, mFiles, mFormat, mWaveTrack, mClip, mErrorMsg, mProjectAttrs,
                   mProjDir, mFileMap, tags, reports, ownerCalls, hostVars, loopVars,
                   histVars, ghostVars>>

(***************************************************************************)
(* The tokenizer (XMLFileReader::Parse) delivers well-nested events of one *)
(* document element.                                                       *)
(***************************************************************************)
\* The events the claims about rejected tags speak of.
OutOfContext(tag, parent) ==
    \/ tag \notin Vocabulary
    \/ tag = "label" /\ parent # "labeltrack"
    \/ tag = "tag" /\ parent # "tags"

StartElement(tag, attrs, env) ==
    /\ pc = "parse"
    /\ docStack # <<>> \/ ~rootSeen
    /\ IF Failing THEN quiet < MaxAfterFail /\ tag \in AfterFailTags ELSE budget > 0
    /\ LET r == HandleXMLTag(Cur, tag, attrs, env)
       IN  /\ Install(r.m)
           /\ pc' = IF r.m.crashed THEN "crashed" ELSE "parse"
    /\ docStack' = Append(docStack, tag)
    /\ rootSeen' = TRUE
    /\ budget' = IF Failing THEN budget ELSE budget - 1
    /\ quiet' = IF Failing THEN quiet + 1 ELSE quiet
    /\ rejected' = (rejected \/ (~Failing /\ OutOfContext(tag, mCurrentTag)))
    /\ built' = IF Len(mTracks') > Len(mTracks) THEN Append(built, tag) ELSE built
    /\ UNCHANGED <<result, hostVars, isDirty, loopVars, ghostVars>>

StartIn(V) ==
    \E tag \in V : \E attrs \in AttrsOf(tag) : \E env \in TagEnvs(tag) :
        StartElement(tag, attrs, env)

XMLStartElement == StartIn(TagNames)
WaveStartElement == StartIn(WaveTags)
TimeStartElement == StartIn(TimeTags)
NestStartElement == StartIn(NestTags)

XMLEndElement ==
    /\ pc = "parse"
    /\ docStack # <<>>
    /\ Failing => quiet < MaxAfterFail
    /\ LET m == HandleXMLEndTag(Cur, docStack[Len(docStack)])
       IN  /\ Install(m)
           /\ pc' = IF m.crashed THEN "crashed" ELSE "parse"
    /\ docStack' = SubSeq(docStack, 1, Len(docStack) - 1)
    /\ quiet' = IF Failing THEN quiet + 1 ELSE quiet
    /\ UNCHANGED <<result, budget, rootSeen, hostVars, isDirty, loopVars, histVars,
                   ghostVars>>

(***************************************************************************)
(* Import, lines 292-318: the tokenizer has returned.  Parse returns false *)
(* on a malformed document, at any point, and when the rule of the         *)
(* document element returned false; after a fatal error below the document *)
(* element the rest of the document is no-ops, and Parse may return from   *)
(* there.                                                                  *)
(***************************************************************************)
RootRejected == Failing /\ mHandlers = <<>>
DocumentEnded == docStack = <<>> /\ rootSeen

ParseReturn(success) ==
    /\ pc = "parse"
    /\ success => ~RootRejected /\ (DocumentEnded \/ Failing)
    /\ IF ~success
       THEN /\ mTracks' = <<>>
            /\ reports' = Append(reports, "Couldn't import the project")
            /\ result' = "Failed" /\ pc' = "done"
            /\ UNCHANGED <<processed, next>>
       ELSE /\ reports' = IF mErrorMsg # "" THEN Append(reports, mErrorMsg) ELSE reports
            /\ IF mErrorMsg # "" /\ mUpdateResult = "Failed"
               THEN result' = "Failed" /\ pc' = "done" /\ UNCHANGED <<processed, next>>
               ELSE result' = result /\ pc' = "loop" /\ processed' = 0 /\ next' = 1
            /\ mTracks' = mTracks
    /\ UNCHANGED <<tokVars, mHandlers, mParentTag, mCurrentTag, clips, points, mFiles,
                   mTotalSamples, mFormat, mWaveTrack, mClip, mUpdateResult, mErrorMsg,
                   mProjectAttrs, mProjDir, mFileMap, tags, ownerCalls, hostVars,
                   isDirty, resolveLog, last, updates, histVars, ghostVars>>

XMLParseReturn == \E success \in BOOLEAN : ParseReturn(success)

(***************************************************************************)
(* Import, lines 321-342: the driver loop, one progress check and one      *)
(* resolution for each descriptor.                                         *)
(***************************************************************************)
\* Fault injection: a driver loop that ignores the answer of the progress check.
ProgressUpdateIgnored(answer) ==
    /\ pc = "loop"
    /\ next <= Len(mFiles)
    /\ mUpdateResult' = answer
    /\ updates' = Append(updates, [done |-> processed, total |-> mTotalSamples,
                                   before |-> next, answer |-> answer])
    /\ result' = result /\ pc' = "resolve"
    /\ UNCHANGED <<tokVars, mHandlers, mParentTag, mCurrentTag, mTracks, clips, points,
                   mFiles, mTotalSamples, mFormat, mWaveTrack, mClip, mErrorMsg,
                   mProjectAttrs, mProjDir, mFileMap, tags, reports, ownerCalls,
                   hostVars, isDirty, processed, next, resolveLog, last, histVars,
                   ghostVars>>

ProgressUpdate(answer) ==
    /\ pc = "loop"
    /\ next <= Len(mFiles)
    /\ mUpdateResult' = answer
    /\ updates' = Append(updates, [done |-> processed, total |-> mTotalSamples,
                                   before |-> next, answer |-> answer])
    /\ IF answer # "Success"
       THEN result' = answer /\ pc' = "done"
       ELSE result' = result /\ pc' = "resolve"
    /\ UNCHANGED <<tokVars, mHandlers, mParentTag, mCurrentTag, mTracks, clips, points,
                   mFiles, mTotalSamples, mFormat, mWaveTrack, mClip, mErrorMsg,
                   mProjectAttrs, mProjDir, mFileMap, tags, reports, ownerCalls,
                   hostVars, isDirty, processed, next, resolveLog, last, histVars,
                   ghostVars>>

ProgressCheck == \E answer \in ProgressResults : ProgressUpdate(answer)

\* Line 1446, 'sampleFormat format = mFormat': what the read gives.  A member no
\* sequence tag has written holds any value.
FormatReads(m) == IF m.mFormat = "uninit" THEN SampleFormats ELSE {m.mFormat}

\* Lines 329-341 for the descriptor fi; clip and track are what reading fi.clip
\* and fi.track gave, format what reading mFormat gave.
ResolveOne(m, fi, clip, track, format, io) ==
    LET m1 == [m EXCEPT !.mClip = clip, !.mWaveTrack = track]
    IN  IF fi.path = NoPath
        THEN [m |-> AddSilence(m1, fi.len), path |-> "empty", failure |-> "none",
              warned |-> FALSE, silence |-> fi.len, data |-> 0, valid |-> 0,
              fOpened |-> 0, fClosed |-> 0, sfOpened |-> 0, sfClosed |-> 0]
        ELSE AddSamples(m1, fi.len, fi.origin, format, io)

\* Fault injection: a driver loop that steps over the descriptor after the one resolved.
ResolveSkipping ==
    /\ pc = "resolve"
    /\ \E clip \in PointerReads(mFiles[next].clip) :
       \E track \in PointerReads(mFiles[next].track) :
       \E format \in FormatReads(Cur) :
       \E io \in IOs :
          LET fi == mFiles[next]
              r == ResolveOne(Cur, fi, clip, track, format, io)
          IN  /\ Install(r.m)
              /\ IF r.m.crashed
                 THEN pc' = "crashed" /\ UNCHANGED <<resolveLog, last, processed, next>>
                 ELSE /\ pc' = "loop"
                      /\ resolveLog' = Append(resolveLog,
                             [file |-> next, silence |-> r.silence, data |-> r.data])
                      /\ last' = [file |-> next, path |-> r.path, format |-> format,
                                  failure |-> r.failure, warned |-> r.warned,
                                  silence |-> r.silence, data |-> r.data,
                                  valid |-> r.valid,
                                  fOpened |-> r.fOpened, fClosed |-> r.fClosed,
                                  sfOpened |-> r.sfOpened, sfClosed |-> r.sfClosed]
                      /\ processed' = processed + fi.len
                      /\ next' = next + 2
    /\ UNCHANGED <<result, tokVars, hostVars, isDirty, updates, histVars, ghostVars>>

Resolve ==
    /\ pc = "resolve"
    /\ \E clip \in PointerReads(mFiles[next].clip) :
       \E track \in PointerReads(mFiles[next].track) :
       \E format \in FormatReads(Cur) :
       \E io \in IOs :
          LET fi == mFiles[next]
              r == ResolveOne(Cur, fi, clip, track, format, io)
          IN  /\ Install(r.m)
              /\ IF r.m.crashed
                 THEN pc' = "crashed" /\ UNCHANGED <<resolveLog, last, processed, next>>
                 ELSE /\ pc' = "loop"
                      /\ resolveLog' = Append(resolveLog,
                             [file |-> next, silence |-> r.silence, data |-> r.data])
                      /\ last' = [file |-> next, path |-> r.path, format |-> format,
                                  failure |-> r.failure, warned |-> r.warned,
                                  silence |-> r.silence, data |-> r.data,
                                  valid |-> r.valid,
                                  fOpened |-> r.fOpened, fClosed |-> r.fClosed,
                                  sfOpened |-> r.sfOpened, sfClosed |-> r.sfClosed]
                      /\ processed' = processed + fi.len
                      /\ next' = next + 1
    /\ UNCHANGED <<result, tokVars, hostVars, isDirty, updates, histVars, ghostVars>>

(***************************************************************************)
(* Import, lines 344-436: commit the tracks, then apply the project        *)
(* attributes unless the project was dirty.  A have-flag the root tag      *)
(* never wrote is indeterminate: junk tells whether such flags read true.  *)
(***************************************************************************)
KnownFormats == {"hh:mm:ss", "samples"}
LookupFormat(v) == IF v \in KnownFormats THEN v ELSE "default"
FormatFields == {"selectionformat", "audiotimeformat", "frequencyformat",
                 "bandwidthformat"}
Have(f, junk) == IF mProjectAttrs[f] = Unset THEN junk ELSE TRUE
Setting(f) == IF mProjectAttrs[f] = Unset THEN Garbage
              ELSE IF f \in FormatFields THEN LookupFormat(mProjectAttrs[f])
              ELSE mProjectAttrs[f]

RECURSIVE SettersFrom(_, _)
SettersFrom(i, junk) ==
    IF i > Len(AttrFields) THEN <<>>
    ELSE (IF Have(AttrFields[i], junk) THEN <<AttrFields[i]>> ELSE <<>>)
         \o SettersFrom(i + 1, junk)

Added == [i \in 1..Len(mTracks) |-> "tracks.Add"]

\* Fault injection: a commit that puts the new tracks in front of the old ones.
CommitPrepended ==
    /\ tracks' = mTracks \o tracks
    /\ mTracks' = <<>>

Commit ==
    /\ tracks' = tracks \o mTracks
    /\ mTracks' = <<>>

ApplyAttrs(junk) ==
    /\ view' = [f \in FieldSet |-> IF Have(f, junk) THEN Setting(f) ELSE view[f]]
    /\ setterLog' = setterLog \o Added \o SettersFrom(1, junk)

ImportFinish ==
    /\ pc = "loop"
    /\ next > Len(mFiles)
    /\ pc' = "done"
    /\ result' = mUpdateResult
    /\ IF mUpdateResult \in {"Failed", "Cancelled"}
       THEN mTracks' = <<>> /\ UNCHANGED hostVars
       ELSE /\ Commit
            /\ IF isDirty
               THEN view' = view /\ setterLog' = setterLog \o Added
               ELSE \E junk \in BOOLEAN : ApplyAttrs(junk)
    /\ UNCHANGED <<tokVars, mHandlers, mParentTag, mCurrentTag, clips, points, mFiles,
                   mTotalSamples, mFormat, mWaveTrack, mClip, mUpdateResult, mErrorMsg,
                   mProjectAttrs, mProjDir, mFileMap, tags, reports, ownerCalls,
                   isDirty, loopVars, histVars, ghostVars>>

Next ==
    \/ ImportBegin
    \/ XMLStartElement
    \/ XMLEndElement
    \/ XMLParseReturn
    \/ ProgressCheck
    \/ Resolve
    \/ ImportFinish

Spec == Init /\ [][Next]_vars

\* Documents of wave tags, imported into an empty project.
InitWave == InitWith(MaxWaveTags, {<<>>})
NextWave ==
    \/ ImportBegin
    \/ WaveStartElement
    \/ XMLEndElement
    \/ XMLParseReturn
    \/ ProgressCheck
    \/ Resolve
    \/ ImportFinish
SpecWave == InitWave /\ [][NextWave]_vars

\* Documents of tracks, clips and silent blocks, nested more deeply.
InitNest == InitWith(MaxNestTags, {<<>>})
NextNest ==
    \/ ImportBegin
    \/ NestStartElement
    \/ XMLEndElement
    \/ XMLParseReturn
    \/ ProgressCheck
    \/ Resolve
    \/ ImportFinish
SpecNest == InitNest /\ [][NextNest]_vars

\* Documents of time-track tags.
InitTime == InitWith(MaxTimeTags, HostTrackLists)
NextTime ==
    \/ ImportBegin
    \/ TimeStartElement
    \/ XMLEndElement
    \/ XMLParseReturn
    \/ ProgressCheck
    \/ Resolve
    \/ ImportFinish
SpecTime == InitTime /\ [][NextTime]_vars

(***************************************************************************)
(* The properties.  Helper definitions first.                              *)
(***************************************************************************)
Done == pc = "done"
Parsing == pc = "parse" /\ ~Failing
AllEnvs == [childOk : BOOLEAN, ub : {"fault", "garbage"}]

\* The kind of track each track tag constructs.
KindOf(tag) ==
    CASE tag = "labeltrack" -> "label"
      [] tag = "notetrack" -> "note"
      [] tag = "timetrack" -> "time"
      [] tag = "wavetrack" -> "wave"
      [] OTHER -> "none"

RECURSIVE SumSeq(_)
SumSeq(q) == IF q = <<>> THEN 0 ELSE q[1] + SumSeq(Tail(q))

\* All samples held by the importer's tracks and clips.
AllSamples ==
    SumSeq([i \in 1..Len(mTracks) |-> mTracks[i].samples])
    + SumSeq([j \in 1..Len(clips) |-> clips[j].samples])

\* The owner a descriptor names: its clip if it has one, else its track; Null when
\* it names neither or names a member that was never assigned.
OwnerOf(fi) ==
    IF fi.clip.k = "clip" /\ fi.track.k = "track" THEN fi.clip
    ELSE IF fi.clip = Null /\ fi.track.k = "track" THEN fi.track
    ELSE Null
SamplesOf(p) == IF p.k = "clip" THEN clips[p.id].samples ELSE mTracks[p.id].samples

AllContinue == \A i \in 1..Len(updates) : updates[i].answer = "Success"
Committed == Len(tracks) = Len(tracks0) + Len(built) /\ mTracks = <<>>

(***************************************************************************)
(* C1: Commit is all-or-nothing.  Until Import returns Success, and when   *)
(* it returns anything else, the host's track list is what it was before   *)
(* Import began; when it returns Success the host's track list is the old  *)
(* list followed by every track the importer constructed, in the order the *)
(* track tags were opened.                                                 *)
(***************************************************************************)
C1_CommitAllOrNothing ==
    /\ (~Done \/ result # "Success") => tracks = tracks0
    /\ (Done /\ result = "Success") =>
          /\ Len(tracks) = Len(tracks0) + Len(built)
          /\ SubSeq(tracks, 1, Len(tracks0)) = tracks0
          /\ \A i \in 1..Len(built) : tracks[Len(tracks0) + i].kind = KindOf(built[i])

\* A successful import of two tracks of different kinds into a project with a track.
C1_Witness ==
    /\ Done /\ result = "Success"
    /\ tracks0 # <<>>
    /\ Len(built) = 2 /\ built[1] # built[2]

(***************************************************************************)
(* C2: a tag-open event whose name is outside the vocabulary, a label tag  *)
(* whose parent is not labeltrack, or a tag tag whose parent is not tags,  *)
(* makes HandleXMLTag return failure, pushes no frame and sets the outcome *)
(* to Failed; an import that saw such an event returns Failed.             *)
(***************************************************************************)
C2_OutOfContextRejected ==
    /\ Parsing =>
          \A tag \in TagNames : OutOfContext(tag, mCurrentTag) =>
             \A attrs \in AttrsOf(tag) : \A env \in AllEnvs :
                LET r == HandleXMLTag(Cur, tag, attrs, env)
                IN  /\ ~r.ret
                    /\ ~r.m.crashed
                    /\ r.m.mHandlers = mHandlers
                    /\ r.m.mUpdateResult = "Failed"
    /\ (Done /\ rejected) => result = "Failed"

\* Import has returned after such a tag below an accepted track tag; the tokenizer
\* reported success, so the error message was shown.
C2_Witness ==
    /\ Done /\ rejected /\ result = "Failed"
    /\ built # <<>>
    /\ mCurrentTag \in {"label", "tag", "bogus"}
    /\ reports = <<NotRecognized>>

CommittedTo(t) ==
    tracks[Len(tracks0) + t].samples
    + SumSeq([j \in 1..Len(clips) |-> IF clips[j].track = t THEN clips[j].samples ELSE 0])
QueuedFor(t) ==
    SumSeq([i \in 1..Len(mFiles) |->
               IF mFiles[i].track = TrackPtr(t) THEN mFiles[i].len ELSE 0])

C4_TrackTotals ==
    (Done /\ result = "Success") =>
        \A t \in 1..Len(built) : built[t] = "wavetrack" => CommittedTo(t) = QueuedFor(t)

(***************************************************************************)
(* C5: a failure inside the Block Resolver never changes the outcome.      *)
(* Resolving a descriptor leaves mUpdateResult unchanged and the driver    *)
(* goes on to the next descriptor; an import in which a resolution failed  *)
(* and every progress check answered continue returns Success and commits. *)
(***************************************************************************)
ResolverFailed ==
    \/ last.failure # "none"
    \/ \E i \in 1..Len(resolveLog) : mFiles[i].path # NoPath /\ resolveLog[i].data = 0

C5_ResolverNeverFatal ==
    /\ []((Done /\ ResolverFailed /\ AllContinue) => (result = "Success" /\ Committed))
    /\ [][pc = "resolve" =>
             /\ mUpdateResult' = mUpdateResult
             /\ pc' = "loop" => next' = next + 1]_vars

\* The file of the only descriptor could not be opened, and the import succeeded.
C5_Witness ==
    /\ Done /\ result = "Success"
    /\ last.failure = "open" /\ mErrorMsg = "Failed to open file"
    /\ tracks # <<>>

(***************************************************************************)
(* C6: for a descriptor with a path, whenever the decode service fails to  *)
(* open, fails to seek, or delivers fewer frames than requested, on any of *)
(* the four read paths, a warning is recorded and the owner receives       *)
(* silence of the requested length, not the partly read buffer.  Stated    *)
(* for descriptors that name an owner, resolved with a declared format.    *)
(***************************************************************************)
C6_FailureGivesSilence ==
    (/\ last.file > 0 /\ last.failure # "none"
     /\ mFormat # "uninit" /\ OwnerOf(mFiles[last.file]) # Null) =>
        /\ last.warned
        /\ last.silence = mFiles[last.file].len
        /\ last.data = 0

(***************************************************************************)
(* C7: exactly one progress check precedes the resolution of each          *)
(* descriptor; if the check before descriptor i answers anything but       *)
(* continue, descriptor i and the later ones are never resolved and Import *)
(* returns that answer without transferring a track to the host.           *)
(***************************************************************************)
C7_OneCheckPerDescriptor ==
    /\ pc = "loop" => Len(updates) = Len(resolveLog)
    /\ pc = "resolve" => Len(updates) = Len(resolveLog) + 1
    /\ \A i \in 1..Len(updates) : updates[i].before = i
    /\ \A i \in 1..Len(resolveLog) :
          resolveLog[i].file = i /\ updates[i].answer = "Success"
    /\ \A i \in 1..Len(updates) : updates[i].answer # "Success" =>
          /\ i = Len(updates)
          /\ Len(resolveLog) = i - 1
          /\ Done /\ result = updates[i].answer
          /\ tracks = tracks0

\* The check before the second of two descriptors answered Cancelled.
C7_Witness ==
    /\ Done /\ result = "Cancelled"
    /\ Len(mFiles) = 2 /\ Len(resolveLog) = 1 /\ Len(updates) = 2
    /\ built # <<>>

(***************************************************************************)
(* C8: on every return of Import with a result other than Success the      *)
(* importer's own list of constructed tracks is empty.                     *)
(***************************************************************************)
C8_TracksDiscarded == (Done /\ result # "Success") => mTracks = <<>>

(***************************************************************************)
(* C9: a timetrack tag seen when a Time Track already exists, in the host  *)
(* project or among the tracks this import has built, creates no Time      *)
(* Track: after a successful import the host holds at most one Time Track. *)
(***************************************************************************)
TimeTracksIn(q) == {i \in 1..Len(q) : q[i].kind = "time"}

C9_OneTimeTrack ==
    /\ (Parsing /\ (TimeTracksIn(tracks) # {} \/ TimeTracksIn(mTracks) # {})) =>
             \A env \in AllEnvs :
                HandleXMLTag(Cur, "timetrack", <<>>, env).m.mTracks = mTracks
    /\ (Done /\ result = "Success") => Cardinality(TimeTracksIn(tracks)) <= 1

(***************************************************************************)
(* C10: when a timetrack tag is bypassed, the tag itself, an envelope tag  *)
(* under it and a controlpoint tag under that envelope are accepted: each  *)
(* pushes a frame with a null owner, raises no error or warning, creates   *)
(* or modifies no entity, and their close-tags pop the frames without      *)
(* notifying an owner.                                                     *)
(***************************************************************************)
Untouched(m) ==
    /\ ~m.crashed
    /\ m.mTracks = mTracks /\ m.clips = clips /\ m.points = points
    /\ m.mFiles = mFiles /\ m.tags = tags
    /\ m.mErrorMsg = mErrorMsg /\ m.mUpdateResult = mUpdateResult
    /\ m.ownerCalls = ownerCalls
AcceptedWithNullOwner(r) ==
    /\ r.ret
    /\ Len(r.m.mHandlers) = Len(mHandlers) + 1
    /\ SubSeq(r.m.mHandlers, 1, Len(mHandlers)) = mHandlers
    /\ r.m.mHandlers[Len(r.m.mHandlers)].handler = Null
    /\ Untouched(r.m)
PoppedQuietly(m) ==
    /\ m.mHandlers = SubSeq(mHandlers, 1, Len(mHandlers) - 1)
    /\ Untouched(m)
\* The frames from depth d up are those of a bypassed timetrack and what is under it.
BypassedAt(d, names) ==
    /\ Len(mHandlers) = d + Len(names) - 1
    /\ \A i \in 1..Len(names) :
          mHandlers[d + i - 1].tag = names[i] /\ mHandlers[d + i - 1].handler = Null
BypassedTop(names) == \E d \in 1..Len(mHandlers) : BypassedAt(d, names)

InvalidMaxSamples == "Invalid sequence 'maxsamples' attribute."
\* The integers the texts denote, written out independently of the conversion.
MaxSamplesTexts ==
    {<<"-1", -1>>, <<"0", 0>>, <<"1023", 1023>>, <<"1024", 1024>>, <<"1", 1>>,
     <<"67108864", 67108864>>, <<"67108865", 67108865>>}
MalformedTexts == {"abc", "", BadString}

C11_MaxSamplesRange ==
    /\ Parsing =>
          \A env \in AllEnvs :
             /\ \A tv \in MaxSamplesTexts :
                   LET r == HandleXMLTag(Cur, "sequence", <<A("maxsamples", tv[1])>>, env)
                   IN  ~r.m.crashed =>
                          IF 1024 <= tv[2] /\ tv[2] <= 67108864
                          THEN r.ret /\ r.m.mUpdateResult = "Success" /\ r.m.mErrorMsg = ""
                          ELSE /\ ~r.ret /\ r.m.mUpdateResult = "Failed"
                               /\ r.m.mErrorMsg = InvalidMaxSamples
                               /\ r.m.mHandlers = mHandlers
             /\ \A v \in MalformedTexts :
                   LET r == HandleXMLTag(Cur, "sequence", <<A("maxsamples", v)>>, env)
                   IN  ~r.m.crashed => ~r.ret /\ r.m.mUpdateResult = "Failed"
    /\ (Done /\ mErrorMsg = InvalidMaxSamples) => result = "Failed"

\* A sequence tag with maxsamples 1023 under a wave track ended the import.
C11_Witness ==
    /\ Done /\ result = "Failed"
    /\ mErrorMsg = InvalidMaxSamples
    /\ mCurrentTag = "sequence" /\ mParentTag = "wavetrack"
    /\ reports = <<InvalidMaxSamples>>

(***************************************************************************)
(* C12: a root tag (project / audacityproject) is accepted only if all     *)
(* three of version, audacityversion and projname are present; with at     *)
(* most two of them the tag is rejected and Import returns Failed,         *)
(* whatever the other attributes are.                                      *)
(***************************************************************************)
RootTags == {"project", "audacityproject"}
RequiredAttrs == <<A("version", "1"), A("audacityversion", "1"), A("projname", "proj_data")>>
OtherAttrs == {<<>>, <<A("vpos", "1"), A("snapto", "on")>>}
\* The project rule reads no frame of the stack: one outcome of such a read is enough.
RootEnvs == [childOk : BOOLEAN, ub : {"fault"}]
\* A tag may not repeat an attribute: the lists are the required attributes in a
\* set S, in order, after the other attributes.
RequiredIn(S) == SelectSeq(RequiredAttrs, LAMBDA a : a[1] \in S)
RequiredNames == {"version", "audacityversion", "projname"}

C12_RootNeedsThree ==
    /\ (Parsing /\ Len(mHandlers) <= 1) =>
          \A tag \in RootTags : \A S \in SUBSET RequiredNames : \A other \in OtherAttrs :
             \A env \in RootEnvs :
                LET r == HandleXMLTag(Cur, tag, other \o RequiredIn(S), env)
                IN  /\ r.ret => S = RequiredNames
                    /\ Cardinality(S) <= 2 =>
                          /\ ~r.ret
                          /\ r.m.mUpdateResult = "Failed"
                          /\ r.m.mHandlers = mHandlers
    /\ (Done /\ mCurrentTag \in RootTags /\ mErrorMsg = NotRecognized) => result = "Failed"

\* The document element was a project tag with two of the three, and Import returned.
C12_Witness ==
    /\ Done /\ result = "Failed"
    /\ mCurrentTag = "project" /\ mParentTag = ""
    /\ mErrorMsg = NotRecognized
    /\ mProjDir # <<>>
    /\ mProjectAttrs = [f \in FieldSet |-> Unset]

(***************************************************************************)
(* C13: a field of the host's view state is modified by Import only if     *)
(* Import returns Success, the host project was neither dirty nor holding  *)
(* tracks when Import began, and the root tag of the document supplied the *)
(* field; otherwise the field keeps its value.  Stated for documents whose *)
(* root tag was accepted and supplied the rate.                            *)
(***************************************************************************)
Supplied(f) == mProjectAttrs[f] # Unset

C13_ViewStateFrame ==
    Supplied("rate") =>
       \A f \in FieldSet :
          view[f] # view0[f] =>
             /\ Done /\ result = "Success"
             /\ ~isDirty /\ tracks0 = <<>>
             /\ Supplied(f)

(***************************************************************************)
(* C14: when the project attributes are applied, the host setters are      *)
(* invoked in this relative order for the fields that are present: rate,   *)
(* snap-to, selection format, time format, frequency format, bandwidth     *)
(* format, vertical position, horizontal position, zoom, selection start,  *)
(* selection end; all of them after the tracks were transferred.           *)
(***************************************************************************)
SetterRank(call) ==
    CASE call = "tracks.Add" -> 0
      [] call = "rate" -> 1
      [] call = "snapto" -> 2
      [] call = "selectionformat" -> 3
      [] call = "audiotimeformat" -> 4
      [] call = "frequencyformat" -> 5
      [] call = "bandwidthformat" -> 6
      [] call = "vpos" -> 7
      [] call = "h" -> 8
      [] call = "zoom" -> 9
      [] call = "sel0" -> 10
      [] call = "sel1" -> 11
Called(f) == \E i \in 1..Len(setterLog) : setterLog[i] = f

C14_SetterOrder ==
    /\ \A i, j \in 1..Len(setterLog) :
          i < j => \/ SetterRank(setterLog[i]) < SetterRank(setterLog[j])
                   \/ setterLog[i] = "tracks.Add" /\ setterLog[j] = "tracks.Add"
    /\ (Done /\ result = "Success") =>
          /\ Cardinality({i \in 1..Len(setterLog) : setterLog[i] = "tracks.Add"}) = Len(built)
          /\ ~isDirty => \A f \in FieldSet : Supplied(f) => Called(f)
    /\ setterLog # <<>> => Done /\ result = "Success"

\* A track was transferred, then the three fields of the root tag were applied;
\* the root tag gave them in another order.
C14_Witness ==
    /\ Done /\ result = "Success"
    /\ setterLog = <<"tracks.Add", "rate", "snapto", "zoom">>

(***************************************************************************)
(* C15: whenever an import ends with a fatal error, the message retained   *)
(* in mErrorMsg is the message of the first fatal error raised, also when  *)
(* a warning was recorded before the fatal error.                          *)
(***************************************************************************)
\* The messages the rules pass to SetWarning while the document is parsed.
ParseWarnings == {"Missing project file", "Missing alias file"}
\* Import returned Failed because a rule called SetError.
EndedByFatalError ==
    Done /\ result = "Failed" /\ updates = <<>> /\ mUpdateResult = "Failed"

C15_FirstFatalRetained == EndedByFatalError => mErrorMsg \notin ParseWarnings

(***************************************************************************)
(* C16: in an import that is not aborted by a fatal error, if a warning is *)
(* recorded, during parsing or during block resolution, the report         *)
(* callback is invoked with the first recorded warning before Import       *)
(* returns.  Stated for imports that return Success.                       *)
(***************************************************************************)
Reported(msg) == \E i \in 1..Len(reports) : reports[i] = msg

C16_WarningReported ==
    (Done /\ result = "Success" /\ mErrorMsg # "") => Reported(mErrorMsg)

(***************************************************************************)
(* C17: a metadata attribute (an attribute of the tags tag, or the name or *)
(* value attribute of a tag tag) that fails the good-string check records  *)
(* a warning and does not abort: the outcome stays Success and the tag is  *)
(* accepted, so that parsing continues.                                    *)
(***************************************************************************)
WarnedNotAborted(r) ==
    /\ r.ret
    /\ r.m.mUpdateResult = "Success"
    /\ Len(r.m.mHandlers) = Len(mHandlers) + 1
    /\ mErrorMsg = "" => r.m.mErrorMsg # ""

C17_BadMetadataWarns ==
    Parsing =>
       \A env \in AllEnvs :
          /\ WarnedNotAborted(HandleXMLTag(Cur, "tags", <<A("title", BadString)>>, env))
          /\ mCurrentTag = "tags" =>
                WarnedNotAborted(HandleXMLTag(Cur, "tag",
                                    <<A("name", "artist"), A("value", BadString)>>, env))

(***************************************************************************)
(* C18: every descriptor in the queue has len > 0: a simpleblockfile,      *)
(* silentblockfile or pcmaliasblockfile tag whose length attribute (len /  *)
(* aliaslen) is zero, negative, malformed or missing is rejected with a    *)
(* fatal error and appends no descriptor.                                  *)
(***************************************************************************)
BadLenTexts == {"0", "-1", "abc", ""}
\* The block tags with a bad length, and with none.
BadLenTags ==
    {<<"silentblockfile", <<A("len", v)>>>> : v \in BadLenTexts}
    \cup {<<"simpleblockfile", <<A("filename", "b1.au"), A("len", v)>>>> : v \in BadLenTexts}
    \cup {<<"pcmaliasblockfile", <<A("aliasfile", "/abs/x.wav"), A("aliasstart", "1"),
                                   A("aliaslen", v)>>>> : v \in BadLenTexts}
    \cup {<<"silentblockfile", <<>>>>,
          <<"simpleblockfile", <<A("filename", "b1.au")>>>>,
          <<"pcmaliasblockfile", <<A("aliasfile", "/abs/x.wav"), A("aliasstart", "1")>>>>}

C18_PositiveLen ==
    /\ \A i \in 1..Len(mFiles) : mFiles[i].len > 0
    /\ Parsing =>
          \A c \in BadLenTags : \A env \in AllEnvs :
             LET r == HandleXMLTag(Cur, c[1], c[2], env)
             IN  /\ ~r.ret
                 /\ r.m.mUpdateResult = "Failed"
                 /\ r.m.mFiles = mFiles

\* Helpers of C19: depth of a clip in the built graph, depth of a tag.
RECURSIVE ClipDepth(_, _)
ClipDepth(cs, j) == IF cs[j].parent = 0 THEN 1 ELSE 1 + ClipDepth(cs, cs[j].parent)
\* The number of waveclip frames in a row that end at frame k.
RECURSIVE TagDepth(_, _)
TagDepth(hs, k) ==
    IF k = 0 \/ hs[k].tag # "waveclip" THEN 0 ELSE 1 + TagDepth(hs, k - 1)

\* The clip of frame k of hs was made as the claim says, given the clips cs.
ClipFrameOk(hs, cs, k) ==
    LET f == hs[k]
        p == hs[k - 1]
        c == cs[f.handler.id]
    IN  /\ f.parent = p.tag
        /\ f.handler.k = "clip"
        /\ f.parent = "wavetrack" =>
              p.handler.k = "track" /\ c.track = p.handler.id /\ c.parent = 0
        /\ f.parent = "waveclip" =>
              p.handler.k = "clip" /\ c.parent = p.handler.id
        /\ ClipDepth(cs, f.handler.id) = TagDepth(hs, k)

\* What holds of the clips: every waveclip frame whose enclosing frame owns a
\* track or a clip has a clip nested as deep as its tag.
ClipNestingUnderOwners ==
    /\ \A k \in 2..Len(mHandlers) :
          (mHandlers[k].tag = "waveclip" /\ mHandlers[k].parent \in {"wavetrack", "waveclip"})
             => ClipFrameOk(mHandlers, clips, k)
    /\ (Parsing /\ mHandlers # <<>> /\ mCurrentTag \in {"wavetrack", "waveclip"}
        /\ Back(Cur).handler # Null) =>
          \A env \in AllEnvs :
             LET r == HandleXMLTag(Cur, "waveclip", <<>>, env)
             IN  /\ ~r.m.crashed
                 /\ Len(r.m.clips) = Len(clips) + 1
                 /\ SubSeq(r.m.clips, 1, Len(clips)) = clips
                 /\ r.m.mTracks = mTracks
                 /\ r.ret => ClipFrameOk(r.m.mHandlers, r.m.clips, Len(r.m.mHandlers))

\* A cut line inside a cut line inside a clip of a track, each tag still open.
DeepCutLine ==
    /\ Parsing
    /\ Len(mHandlers) = 4 /\ TagDepth(mHandlers, 4) = 3
    /\ ClipDepth(clips, mHandlers[4].handler.id) = 3

(***************************************************************************)
(* C19: for every waveclip tag, if its parent tag is wavetrack a new clip  *)
(* is created on the track owned by the parent frame; if its parent tag is *)
(* waveclip a cut-line clip is created as a child of the clip owned by the *)
(* enclosing waveclip frame, so the nesting depth of each clip equals the  *)
(* nesting depth of its tag.  Stated for documents that open with a        *)
(* wavetrack, so that no rule has read an empty stack.                     *)
(***************************************************************************)
C19_NestedClipCreated ==
    (Parsing /\ mHandlers # <<>> /\ mHandlers[1].handler.k = "track"
     /\ mCurrentTag = "waveclip" /\ Back(Cur).tag = "waveclip") =>
       \A env \in AllEnvs :
          LET r == HandleXMLTag(Cur, "waveclip", <<>>, env)
          IN  /\ ~r.m.crashed
              /\ Len(r.m.clips) = Len(clips) + 1
              /\ r.m.clips[Len(r.m.clips)].parent = Back(Cur).handler.id
              /\ r.ret => ClipFrameOk(r.m.mHandlers, r.m.clips, Len(r.m.mHandlers))


(***************************************************************************)
(* C20: a simpleblockfile tag whose filename value is not a key of the     *)
(* file-name index records a warning and queues a descriptor with an empty *)
(* path and the tag's len, so that resolution inserts len samples of       *)
(* silence; a value that is a key queues a descriptor whose path is the    *)
(* indexed absolute path.                                                  *)
(***************************************************************************)
MissingProjectFile == "Missing project file"
\* File-name values: a data file, a name no file has, and two values that
\* XMLValueChecker::IsGoodFileString turns down.
FileNameTexts == {"b1.au", "zz.au", "", BadString}

\* What the tag with file name v left behind, as the claim has it.
QueuedAsClaimed(m0, r, v) ==
    LET fi == r.m.mFiles[Len(r.m.mFiles)]
    IN  /\ r.ret
        /\ Len(r.m.mFiles) = Len(m0.mFiles) + 1
        /\ fi.len = 2
        /\ IF v \in DOMAIN m0.mFileMap
           THEN fi.path = m0.mFileMap[v]
           ELSE /\ fi.path = NoPath
                /\ r.m.mErrorMsg = (IF m0.mErrorMsg = "" THEN MissingProjectFile
                                    ELSE m0.mErrorMsg)

C20_MissingFileWarns ==
    /\ (Parsing /\ mUpdateResult = "Success" /\ mCurrentTag = "wavetrack") =>
          \A v \in FileNameTexts : \A env \in AllEnvs :
             LET r == HandleXMLTag(Cur, "simpleblockfile",
                                   <<A("filename", v), A("len", "2")>>, env)
             IN  QueuedAsClaimed(Cur, r, v)
    /\ \A i \in 1..Len(resolveLog) :
          mFiles[resolveLog[i].file].path = NoPath =>
             /\ resolveLog[i].silence = mFiles[resolveLog[i].file].len
             /\ resolveLog[i].data = 0

\* The same with the file names that are good file strings only.
GoodNamesQueuedAsClaimed ==
    (Parsing /\ mUpdateResult = "Success" /\ mCurrentTag = "wavetrack") =>
       \A v \in {"b1.au", "zz.au"} : \A env \in AllEnvs :
          QueuedAsClaimed(Cur, HandleXMLTag(Cur, "simpleblockfile",
                                            <<A("filename", v), A("len", "2")>>, env), v)
\* The index is filled and the rule is about to run.
IndexFilled ==
    /\ Parsing /\ mUpdateResult = "Success" /\ mCurrentTag = "wavetrack"
    /\ "b1.au" \in DOMAIN mFileMap


(***************************************************************************)
(* C21: in an import that returns Success every queued descriptor is       *)
(* resolved exactly once, in the order the descriptors were queued, and    *)
(* resolution does not modify the descriptors.                             *)
(***************************************************************************)
ResolvedInOrder ==
    /\ Len(resolveLog) = Len(mFiles)
    /\ \A i \in 1..Len(resolveLog) : resolveLog[i].file = i

C21_ResolvedOnceInOrder ==
    /\ []((Done /\ result = "Success") => ResolvedInOrder)
    /\ [][(pc \in {"loop", "resolve"}) => (mFiles' = mFiles)]_vars

\* Two descriptors of different lengths, both resolved, and Import returned Success.
C21_Witness ==
    /\ Done /\ result = "Success"
    /\ Len(mFiles) = 2 /\ mFiles[1].len # mFiles[2].len
    /\ ResolvedInOrder


(***************************************************************************)
(* C22: when the resolution of a descriptor returns, by success or by an   *)
(* early return (open, seek or short read), every decode handle opened for *)
(* it has been closed exactly once: none is open between descriptors or    *)
(* when Import returns.                                                    *)
(***************************************************************************)
C22_HandlesClosed ==
    /\ last.sfOpened = last.sfClosed /\ last.sfOpened \in {0, 1}
    /\ last.fOpened = last.fClosed /\ last.fOpened \in {0, 1}
    /\ last.failure = "open" => last.sfOpened = 0
    /\ last.failure \in {"seek", "read"} => last.sfOpened = 1
    /\ (last.failure = "none" /\ last.path \notin {"none", "empty"}) => last.sfOpened = 1

\* Import returned after a seek failed on an opened decode handle, which was closed.
C22_Witness ==
    /\ Done /\ last.failure = "seek"
    /\ last.sfOpened = 1 /\ last.sfClosed = 1 /\ last.fClosed = 1


(***************************************************************************)
(* C23: while no fatal error has occurred, after every tag-open and        *)
(* tag-close event the depth of the handler stack equals the number of     *)
(* tags opened and not yet closed, and when the stack is non-empty         *)
(* mCurrentTag is the tag of the top frame (the most recently opened       *)
(* unclosed tag) and mParentTag is the parent of the top frame.            *)
(***************************************************************************)
C23_StackMirrorsDocument ==
    Parsing =>
       /\ Len(mHandlers) = Len(docStack)
       /\ \A k \in 1..Len(mHandlers) :
             /\ mHandlers[k].tag = docStack[k]
             /\ mHandlers[k].parent = (IF k = 1 THEN "" ELSE docStack[k - 1])
       /\ mHandlers # <<>> =>
             /\ mCurrentTag = mHandlers[Len(mHandlers)].tag
             /\ mParentTag = mHandlers[Len(mHandlers)].parent

\* Every tag of the budget was opened and some were closed again: a clip of a
\* track is the innermost open tag.
C23_Witness ==
    /\ Parsing /\ budget = 0
    /\ Len(mHandlers) = 2 /\ docStack = <<"wavetrack", "waveclip">>
    /\ mCurrentTag = "waveclip" /\ mParentTag = "wavetrack"


(***************************************************************************)
(* C24: on every close-tag the top frame is popped and an end-tag          *)
(* notification is sent to the frame's owner only when that owner is not   *)
(* null; a frame with a null owner, a waveclip frame opened under a parent *)
(* that is neither wavetrack nor waveclip included, is popped without      *)
(* dereferencing the owner.  Stated for documents that open with a         *)
(* wavetrack, so that no rule has read an empty stack.                     *)
(***************************************************************************)
C24_NullOwnerPoppedQuietly ==
    (Parsing /\ mHandlers # <<>> /\ mHandlers[1].handler.k = "track") =>
       LET top == Back(Cur)
           m == HandleXMLEndTag(Cur, top.tag)
       IN  /\ ~m.crashed
           /\ m.mHandlers = SubSeq(mHandlers, 1, Len(mHandlers) - 1)
           /\ m.ownerCalls = IF top.handler = Null THEN ownerCalls
                             ELSE Append(ownerCalls, [op |-> "end", to |-> top.handler])

\* The same for the frames of every tag but waveclip.
OtherFramesPoppedAsClaimed ==
    (Parsing /\ mHandlers # <<>> /\ mHandlers[1].handler.k = "track"
     /\ Back(Cur).tag # "waveclip") =>
       LET top == Back(Cur)
           m == HandleXMLEndTag(Cur, top.tag)
       IN  /\ ~m.crashed
           /\ m.mHandlers = SubSeq(mHandlers, 1, Len(mHandlers) - 1)
           /\ m.ownerCalls = IF top.handler = Null THEN ownerCalls
                             ELSE Append(ownerCalls, [op |-> "end", to |-> top.handler])


(***************************************************************************)
(* C25: within one import mTotalSamples equals the sum of len over the     *)
(* descriptor queue; at every progress report the reported done value      *)
(* equals the sum of len of the descriptors already resolved, does not     *)
(* decrease from report to report, and satisfies 0 <= done <= total.       *)
(***************************************************************************)
\* The sum of len over the first n descriptors.
LenOfFirst(n) == SumSeq([i \in 1..n |-> mFiles[i].len])

C25_ProgressTotals ==
    /\ mTotalSamples = LenOfFirst(Len(mFiles))
    /\ \A i \in 1..Len(updates) :
          /\ updates[i].done = LenOfFirst(i - 1)
          /\ updates[i].total = LenOfFirst(Len(mFiles))
          /\ 0 <= updates[i].done /\ updates[i].done <= updates[i].total
          /\ i > 1 => updates[i - 1].done <= updates[i].done

\* The second report of an import: one descriptor done, another to come.
C25_Witness ==
    /\ Len(updates) = 2
    /\ updates[1].done = 0
    /\ updates[2].done > 0 /\ updates[2].done < updates[2].total


(***************************************************************************)
(* C26: the project attributes and the file-name index are written only    *)
(* while the root tag of the document (the tag opened at stack depth 0) is *)
(* handled; no tag opened at depth 1 or more, whatever its name, changes   *)
(* either of them.  Stated for documents whose root tag is a project tag.  *)
(***************************************************************************)
\* A project tag as it may occur again inside the document, with another rate.
NestedRoot == <<A("version", "1"), A("audacityversion", "1"), A("projname", "proj_data"),
                A("rate", "1")>>
BelowRoot == Parsing /\ mHandlers # <<>> /\ mHandlers[1].tag \in RootTags

\* The tag leaves the project attributes and the index as they are.
LeavesProjectData(tag, attrs) ==
    \A env \in AllEnvs :
       LET r == HandleXMLTag(Cur, tag, attrs, env)
       IN  r.m.mProjectAttrs = mProjectAttrs /\ r.m.mFileMap = mFileMap

C26_RootOnlyWrites ==
    BelowRoot =>
       \A tag \in TagNames : \A attrs \in AttrsOf(tag) \cup {NestedRoot} :
          LeavesProjectData(tag, attrs)

\* The same for every tag name but the two project tags.
OtherTagsLeaveProjectData ==
    BelowRoot =>
       \A tag \in TagNames \ RootTags : \A attrs \in AttrsOf(tag) \cup {NestedRoot} :
          LeavesProjectData(tag, attrs)


(***************************************************************************)
(* C27: if Import returns anything other than Success, the externally      *)
(* owned metadata map equals its value before Import began: entries merged *)
(* by tags and tag elements parsed before the fatal error or the           *)
(* cancellation are not left behind.                                       *)
(***************************************************************************)
C27_TagsRolledBack == (Done /\ result # "Success") => tags = tags0


(***************************************************************************)
(* C28: once a fatal error has set the outcome to Failed during parsing,   *)
(* the outcome never returns to Success during parsing and every later     *)
(* tag-open and tag-close event is a no-op: the handler stack, the         *)
(* importer's track list, the descriptor queue, mTotalSamples, the         *)
(* metadata map and the retained message all stay unchanged.               *)
(***************************************************************************)
C28_FailedIsAbsorbing ==
    [][(pc = "parse" /\ mUpdateResult = "Failed" /\ pc' = "parse") =>
          /\ mUpdateResult' = "Failed"
          /\ UNCHANGED <<mHandlers, mTracks, mFiles, mTotalSamples, tags, mErrorMsg>>
          /\ UNCHANGED <<mParentTag, mCurrentTag, clips, points, ownerCalls>>]_vars

\* A wavetrack tag was delivered after the fatal error and left everything alone.
C28_Witness ==
    /\ pc = "parse" /\ mUpdateResult = "Failed" /\ quiet = 1
    /\ Len(docStack) = Len(mHandlers) + 2
    /\ docStack[Len(docStack)] = "wavetrack"
    /\ Len(mTracks) = 1 /\ mErrorMsg = NotRecognized


(***************************************************************************)
(* C29: each descriptor queued by a block-file tag is bound to the most    *)
(* recently opened wavetrack and to the clip of the innermost waveclip tag *)
(* still open when the block-file tag is seen; after a nested cut-line     *)
(* waveclip has closed, block-file tags that follow inside the enclosing   *)
(* waveclip are bound to the enclosing clip, not to the closed cut line.   *)
(* Stated for block-file tags inside an open waveclip of a document with   *)
(* one wavetrack.                                                          *)
(***************************************************************************)
OpenClipFrames == {k \in 1..Len(mHandlers) : mHandlers[k].tag = "waveclip"}
\* The clip of the innermost waveclip tag that is still open.
InnermostOpenClip ==
    mHandlers[CHOOSE k \in OpenClipFrames : \A j \in OpenClipFrames : j <= k].handler
WaveTrackIds == {i \in 1..Len(mTracks) : mTracks[i].kind = "wave"}
LatestWaveTrack == TrackPtr(CHOOSE i \in WaveTrackIds : \A j \in WaveTrackIds : j <= i)

InsideOwnedClip ==
    /\ Parsing /\ mHandlers # <<>> /\ mHandlers[1].handler.k = "track"
    /\ Len(mTracks) = 1
    /\ OpenClipFrames # {}
    /\ \A k \in OpenClipFrames : mHandlers[k].handler.k = "clip"

C29_BoundToInnermostOpenClip ==
    InsideOwnedClip =>
       \A env \in AllEnvs :
          LET r == HandleXMLTag(Cur, "silentblockfile", <<A("len", "1")>>, env)
              fi == r.m.mFiles[Len(r.m.mFiles)]
          IN  /\ r.ret /\ Len(r.m.mFiles) = Len(mFiles) + 1
              /\ fi.track = LatestWaveTrack
              /\ fi.clip = InnermostOpenClip

\* The same before any waveclip tag has been closed.
BoundBeforeAnyClose ==
    (InsideOwnedClip /\ \A i \in 1..Len(ownerCalls) : ownerCalls[i].op # "end") =>
       \A env \in AllEnvs :
          LET r == HandleXMLTag(Cur, "silentblockfile", <<A("len", "1")>>, env)
              fi == r.m.mFiles[Len(r.m.mFiles)]
          IN  /\ r.ret /\ Len(r.m.mFiles) = Len(mFiles) + 1
              /\ fi.track = LatestWaveTrack
              /\ fi.clip = InnermostOpenClip


(***************************************************************************)
(* C30: each descriptor is decoded using the sample format declared by the *)
(* sampleformat attribute of the sequence tag that encloses its block-file *)
(* tag: when a document holds two sequences with different formats, the    *)
(* blocks of the first are decoded with the first's format.  Stated for a  *)
(* document that so far is a wavetrack, a sequence declaring a format and  *)
(* one alias block in it, when a further sequence tag arrives.             *)
(***************************************************************************)
FirstBlockQueued ==
    /\ Parsing /\ budget = MaxWaveTags - 3
    /\ docStack = <<"wavetrack", "sequence", "pcmaliasblockfile">>
    /\ Len(mFiles) = 1 /\ mFiles[1].path # NoPath
    /\ mFormat \in SampleFormats

C30_DecodedWithOwnFormat ==
    FirstBlockQueued =>
       \A attrs \in AttrsOf("sequence") : \A env \in AllEnvs :
          LET r == HandleXMLTag(Cur, "sequence", attrs, env)
          IN  r.ret => FormatReads(r.m) = {mFormat}


(***************************************************************************)
(* C31: every descriptor in the queue has a non-null owning track or a     *)
(* non-null owning clip, and a non-null clip always comes with a non-null  *)
(* track, so the assertion 'mClip || mWaveTrack' of AddSilence and         *)
(* AddSamples holds for every descriptor resolved, also when a block-file  *)
(* tag is seen before any wavetrack tag.                                   *)
(***************************************************************************)
\* Whatever reading the descriptor's two pointers gives, the assertion holds.
OwnersAsserted(fi) ==
    \A c \in PointerReads(fi.clip) : \A t \in PointerReads(fi.track) :
       /\ c # Null \/ t # Null
       /\ c # Null => t # Null

C31_DescriptorsOwned == \A i \in 1..Len(mFiles) : OwnersAsserted(mFiles[i])

\* The same for a block-file tag seen once a wavetrack tag has set the track.
OwnedAfterWaveTrack ==
    (Parsing /\ mWaveTrack.k = "track") =>
       \A env \in AllEnvs :
          LET r == HandleXMLTag(Cur, "silentblockfile", <<A("len", "1")>>, env)
              fi == r.m.mFiles[Len(r.m.mFiles)]
          IN  /\ r.ret /\ Len(r.m.mFiles) = Len(mFiles) + 1
              /\ fi.track.k = "track" /\ fi.clip.k \in {"null", "clip"}
              /\ OwnersAsserted(fi)


(***************************************************************************)
(* C32: the tag rules that read the top frame of the handler stack         *)
(* (HandleLabel, HandleWaveClip, HandleEnvelope, HandleControlPoint,       *)
(* HandleSequence) do so only when the stack is non-empty, also in a       *)
(* document whose first tag is waveclip, envelope, controlpoint or         *)
(* sequence.  A read of the top frame of an empty stack is undefined: that *)
(* no rule makes one means that no outcome of such a read, a fault among   *)
(* them, can follow the tag.                                               *)
(***************************************************************************)
TopFrameTags == {"label", "waveclip", "envelope", "controlpoint", "sequence"}
AtFirstTag == Parsing /\ mHandlers = <<>> /\ ~rootSeen

C32_TopFrameReadWhenPresent ==
    AtFirstTag =>
       \A tag \in TopFrameTags : \A attrs \in AttrsOf(tag) : \A env \in AllEnvs :
          ~HandleXMLTag(Cur, tag, attrs, env).m.crashed

\* The label rule tests the parent tag before it reads the frame.
LabelReadsNoEmptyStack ==
    AtFirstTag =>
       \A env \in AllEnvs : ~HandleXMLTag(Cur, "label", <<>>, env).m.crashed
\* No read of the top frame outside the first tag meets an empty stack.
StackHeldBelowRoot == (Parsing /\ rootSeen /\ docStack # <<>>) => mHandlers # <<>>
====
